---- MODULE Spec2Model ----
(***************************************************************************)
(* Model of the media-stream relay of src/main.py (handle_media_stream):   *)
(* one call, two coroutines run by asyncio.gather on one event loop.       *)
(*                                                                         *)
(*   receive_from_twilio  (telephony loop, lines 108-134)                  *)
(*   send_to_twilio       (AI loop,        lines 136-213)                  *)
(*                                                                         *)
(* asyncio is cooperative: a coroutine runs without interruption from one  *)
(* `await` to the next.  Every action below is one such segment: it starts *)
(* where a coroutine is resumed and ends at the next await (or return).    *)
(* An await of a send or of a close may or may not suspend; interleaving   *)
(* semantics covers both (not suspending = the same coroutine steps next). *)
(*                                                                         *)
(* Links.  openai_ws and websocket are "open", "closing" or "closed".      *)
(* close() starts the closing handshake ("closing") and the caller is      *)
(* resumed when it is over ("closed"); frames that arrive before the       *)
(* handshake ends are still delivered to the reader, a send on a link that *)
(* is not open raises.                                                     *)
(***************************************************************************)
EXTENDS Integers, Sequences, FiniteSets, TLC

\* ------------------------------------------------------------------ bounds
MaxMarks == 2   \* an audio delta is accepted while mark_queue is shorter
MaxLog   == 1   \* transcript events are accepted while the log has room;
                \* it also bounds the speech buffer and the content pieces
                \* of one response.done, which end up in the log

None == "None"
\* An optional integer is <<>> (Python's None) or <<n>>.
NoTs == <<>>

Sids  == {"CA1", "CA2"}
Items == {"r1", "r2"}
\* Millisecond timestamps carried by the media frames
Timestamps == {0, 800}

\* Texts are tuples of characters, so that lower(), strip() and `in` are
\* computed and not assumed.
TxtHi  == <<"H", "i">>
TxtBye == <<"O", "k", " ", "B", "Y", "E">>
Texts  == {TxtHi, TxtBye}

VARIABLES
    stream_sid,                       \* line 102
    latest_media_timestamp,           \* line 103
    last_assistant_item,              \* line 104
    mark_queue,                       \* line 105
    response_start_timestamp_twilio,  \* line 106
    transcript_log,                   \* line 47 / 91 (module global)
    user_speech_buffer,               \* line 137 (local of send_to_twilio)
    openai_ws,                        \* state of the AI link
    websocket,                        \* state of the telephony link
    pcT,                              \* position of receive_from_twilio
    pcA,                              \* position of send_to_twilio
    response,                         \* item_id of the delta being handled
    twSent,     \* events the AI event in hand has sent to the telephony link
    aiSent,     \* truncate commands it has sent to the AI link
    handoffs,   \* the argument of every upload_transcript_to_gcs call
    goodbye,    \* a goodbye phrase was detected (line 173 was true)
    stopped,    \* a telephony stop event was taken (line 124 was true)
    outstanding \* marks sent since the last reset of lines 227-229 that
                \* the telephony side has not echoed yet

shared == <<stream_sid, latest_media_timestamp, last_assistant_item,
            mark_queue, response_start_timestamp_twilio>>
links  == <<openai_ws, websocket>>
trans  == <<transcript_log, user_speech_buffer>>
sent   == <<twSent, aiSent>>
vars   == <<shared, links, trans, pcT, pcA, response, sent, handoffs,
            goodbye, stopped, outstanding>>

RetT == {"ret_stop", "ret_disc", "ret_err"}
RetA == {"ret_bye", "ret_end", "ret_err"}

\* ------------------------------------------------------- pure functions

\* line 26
BYE_KEYWORDS ==
    << <<"b","y","e">>,
       <<"g","o","o","d","b","y","e">>,
       <<"s","e","e"," ","y","o","u">>,
       <<"t","a","l","k"," ","t","o"," ","y","o","u"," ","l","a","t","e","r">>,
       <<"b","y","e"," ","f","o","r"," ","n","o","w">>,
       <<"t","a","k","e"," ","c","a","r","e">> >>

UpperChars == <<"A","B","C","D","E","F","G","H","I","J","K","L","M",
                "N","O","P","Q","R","S","T","U","V","W","X","Y","Z">>
LowerChars == <<"a","b","c","d","e","f","g","h","i","j","k","l","m",
                "n","o","p","q","r","s","t","u","v","w","x","y","z">>

\* str.lower(), character by character
LowerChar(c) ==
    IF \E i \in 1..26 : UpperChars[i] = c
    THEN LowerChars[CHOOSE i \in 1..26 : UpperChars[i] = c]
    ELSE c

Lower(s) == [i \in 1..Len(s) |-> LowerChar(s[i])]

\* `sub in s` for strings
Contains(sub, s) ==
    \E i \in 0..(Len(s) - Len(sub)) :
        \A j \in 1..Len(sub) : s[i + j] = sub[j]

\* line 173: any(bye in transcript_text.lower() for bye in BYE_KEYWORDS)
IsGoodbye(text) ==
    \E k \in 1..Len(BYE_KEYWORDS) : Contains(BYE_KEYWORDS[k], Lower(text))

\* str.strip()
RECURSIVE LStrip(_)
LStrip(s) == IF s # <<>> /\ Head(s) = " " THEN LStrip(Tail(s)) ELSE s
RECURSIVE RStrip(_)
RStrip(s) ==
    IF s # <<>> /\ s[Len(s)] = " " THEN RStrip(SubSeq(s, 1, Len(s) - 1)) ELSE s
Strip(s) == RStrip(LStrip(s))

\* role.upper() on the roles that occur
UpperRole(r) ==
    CASE r = "assistant" -> "ASSISTANT"
      [] r = "user"      -> "USER"
      [] OTHER           -> r

\* lines 49-51; the wall-clock prefix is not modelled
timestamped_line(role, text) == [role |-> UpperRole(role), text |-> Strip(text)]

\* ' '.join(user_speech_buffer), line 201
RECURSIVE Join(_)
Join(buf) ==
    IF buf = <<>> THEN <<>>
    ELSE IF Len(buf) = 1 THEN buf[1]
    ELSE buf[1] \o <<" ">> \o Join(Tail(buf))

\* The text of line 207
TxtCommitted == <<"[","S","p","e","e","c","h"," ",
                  "c","o","m","m","i","t","t","e","d","]">>

\* ------------------------------------------------------------ messages
MediaMsg(sid, payload) == [event |-> "media", streamSid |-> sid, payload |-> payload]
MarkMsg(sid)  == [event |-> "mark",  streamSid |-> sid, payload |-> "responsePart"]
ClearMsg(sid) == [event |-> "clear", streamSid |-> sid, payload |-> None]
StopMsg(sid)  == [event |-> "stop",  streamSid |-> sid, payload |-> None]
TruncateMsg(item, ms) == [item_id |-> item, content_index |-> 0, audio_end_ms |-> ms]

Count(seq, ev) == Cardinality({i \in 1..Len(seq) : seq[i].event = ev})
Farewells(seq) ==
    Cardinality({i \in 1..Len(seq) :
                    seq[i].event = "media" /\ seq[i].payload = "farewell"})

\* ---------------------------------------------------------------- Init
Init ==
    /\ stream_sid = None
    /\ latest_media_timestamp = 0
    /\ last_assistant_item = None
    /\ mark_queue = <<>>
    /\ response_start_timestamp_twilio = NoTs
    /\ transcript_log = <<>>
    /\ user_speech_buffer = <<>>
    /\ openai_ws = "open"
    /\ websocket = "open"
    /\ pcT = "recv"
    /\ pcA = "recv"
    /\ response = None
    /\ twSent = <<>>
    /\ aiSent = <<>>
    /\ handoffs = <<>>
    /\ goodbye = FALSE
    /\ stopped = FALSE
    /\ outstanding = 0

\* ----------------------------------------------------- transcript sink
\* upload_transcript_to_gcs, lines 53-66: returns at once when no bucket is
\* configured or the transcript is empty (lines 54-59); otherwise it talks
\* to the storage service (lines 62-65), which may raise.
upload_transcript_to_gcs(text_lines) ==
    IF text_lines = <<>> THEN {"returned"} ELSE {"returned", "raised"}

\* ===================================================== telephony loop
\* Frames are read while the telephony link is open (line 111).
TelephonyReadable == pcT = "recv" /\ websocket = "open"

\* line 113: the media branch is taken only while the AI link is open
MediaBranch == openai_ws = "open"

\* lines 113-118.  The append-audio command leaves on the AI link; nothing
\* the relay reads depends on it, and the segment after the await of line
\* 115 touches no state, so the await is not a position of its own.  A media
\* frame that finds the AI link not open matches no branch at all.
T_Media(ts) ==
    /\ TelephonyReadable
    /\ latest_media_timestamp' =
           IF MediaBranch THEN ts ELSE latest_media_timestamp
    /\ UNCHANGED <<stream_sid, last_assistant_item, mark_queue,
                   response_start_timestamp_twilio, links, trans, pcT, pcA,
                   response, sent, handoffs, goodbye, stopped, outstanding>>

\* lines 119-120
T_Start(sid) ==
    /\ TelephonyReadable
    /\ stream_sid' = sid
    /\ UNCHANGED <<latest_media_timestamp, last_assistant_item, mark_queue,
                   response_start_timestamp_twilio, links, trans, pcT, pcA,
                   response, sent, handoffs, goodbye, stopped, outstanding>>

\* Variant of PopMark for sensitivity analysis: the acknowledgment empties
\* the queue.
PopMark_All(q) == SubSeq(q, 1, 0)

\* lines 122-123: mark_queue.pop(0) when the queue is not empty
PopMark(q) == IF q # <<>> THEN Tail(q) ELSE q

\* lines 121-123.  The frame is the echo of the oldest mark not echoed yet
\* when there is one, and a stray acknowledgment otherwise.
T_Mark ==
    /\ TelephonyReadable
    /\ mark_queue' = PopMark(mark_queue)
    /\ outstanding' = IF outstanding > 0 THEN outstanding - 1 ELSE 0
    /\ UNCHANGED <<stream_sid, latest_media_timestamp, last_assistant_item,
                   response_start_timestamp_twilio, links, trans, pcT, pcA,
                   response, sent, handoffs, goodbye, stopped>>

\* lines 124-129 up to the await of line 128.  An exception of the upload is
\* caught at line 133 and ends the loop with the AI link untouched.
T_Stop(outcome) ==
    /\ TelephonyReadable
    /\ outcome \in upload_transcript_to_gcs(transcript_log)
    /\ stopped' = TRUE
    /\ handoffs' = Append(handoffs, transcript_log)
    /\ IF outcome = "raised"
         THEN pcT' = "ret_err" /\ UNCHANGED openai_ws
         ELSE IF openai_ws = "open"
                THEN openai_ws' = "closing" /\ pcT' = "stop_close"
                ELSE pcT' = "ret_stop" /\ UNCHANGED openai_ws
    /\ UNCHANGED <<shared, websocket, trans, pcA, response, sent, goodbye,
                   outstanding>>

\* line 128 resumed (the closing handshake is over), line 129
T_StopClosed ==
    /\ pcT = "stop_close"
    /\ openai_ws' = "closed"
    /\ pcT' = "ret_stop"
    /\ UNCHANGED <<shared, websocket, trans, pcA, response, sent, handoffs,
                   goodbye, stopped, outstanding>>

\* A frame with a tag no branch names (Twilio's "connected", ...): the
\* if/elif chain of lines 113-129 falls through and the loop reads on.
T_Unknown ==
    /\ TelephonyReadable
    /\ UNCHANGED vars

\* A frame json.loads rejects (line 112), or one without 'event', 'media',
\* 'start', ... (KeyError at lines 113-120): the exception leaves the
\* `async for`, is caught at line 133 and the coroutine ends.
T_Malformed ==
    /\ TelephonyReadable
    /\ pcT' = "ret_err"
    /\ UNCHANGED <<shared, links, trans, pcA, response, sent, handoffs,
                   goodbye, stopped, outstanding>>

\* The far end drops the telephony link.
TwDrop ==
    /\ websocket = "open"
    /\ websocket' = "closed"
    /\ UNCHANGED <<shared, openai_ws, trans, pcT, pcA, response, sent,
                   handoffs, goodbye, stopped, outstanding>>

\* lines 130-132: the read of line 111 raises WebSocketDisconnect
T_Disconnect ==
    /\ pcT = "recv"
    /\ websocket = "closed"
    /\ IF openai_ws = "open"
         THEN openai_ws' = "closing" /\ pcT' = "disc_close"
         ELSE pcT' = "ret_disc" /\ UNCHANGED openai_ws
    /\ UNCHANGED <<shared, websocket, trans, pcA, response, sent, handoffs,
                   goodbye, stopped, outstanding>>

\* line 132 resumed
T_DiscClosed ==
    /\ pcT = "disc_close"
    /\ openai_ws' = "closed"
    /\ pcT' = "ret_disc"
    /\ UNCHANGED <<shared, websocket, trans, pcA, response, sent, handoffs,
                   goodbye, stopped, outstanding>>

\* ============================================================= AI loop
\* Messages are delivered by `async for` (line 140) until the AI link is
\* closed; those that arrive during a closing handshake are delivered too.
AiReadable == pcA = "recv" /\ openai_ws \in {"open", "closing"}

\* twSent and aiSent hold what the handler in hand has sent; a handler that
\* goes back to line 140 leaves them empty for the next one.
Handled == twSent' = <<>> /\ aiSent' = <<>>

\* Variant of MarkGuard for sensitivity analysis: send_mark without the test of line 232.
MarkGuard_Always(sid) == sid = sid

\* line 232: send_mark sends only for a truthy stream_sid
MarkGuard(sid) == sid # None

\* lines 157-161 and 232-237, up to the await of line 233: the segment that
\* follows the media send of an audio delta carrying item_id `item`, `tw`
\* being what the event has sent so far.  A mark sent on a telephony link
\* that is not open raises; the exception is caught at line 212.
DeltaTrack(item, tw) ==
    /\ response_start_timestamp_twilio' =
           IF response_start_timestamp_twilio = NoTs
           THEN <<latest_media_timestamp>>
           ELSE response_start_timestamp_twilio
    /\ last_assistant_item' = IF item # None THEN item ELSE last_assistant_item
    /\ response' = None
    /\ IF MarkGuard(stream_sid)
         THEN IF websocket = "open"
                THEN /\ twSent' = Append(tw, MarkMsg(stream_sid))
                     /\ outstanding' = outstanding + 1
                     /\ pcA' = "delta_mark"
                ELSE twSent' = tw /\ pcA' = "ret_err" /\ UNCHANGED outstanding
         ELSE twSent' = <<>> /\ pcA' = "recv" /\ UNCHANGED outstanding
    /\ UNCHANGED <<stream_sid, latest_media_timestamp, mark_queue, aiSent>>

\* lines 146-153: response.audio.delta with a 'delta' field.  `valid` says
\* whether base64 accepts the payload (line 148).  The media event is sent
\* with whatever stream_sid holds.  A decode error or a send on a telephony
\* link that is not open is caught at line 154, and the handler goes on at
\* line 157 without having suspended.
A_Delta(item, valid) ==
    /\ AiReadable
    /\ Len(mark_queue) < MaxMarks
    /\ IF valid /\ websocket = "open"
         THEN /\ twSent' = <<MediaMsg(stream_sid, "audio")>>
              /\ pcA' = "delta_media"
              /\ response' = item
              /\ UNCHANGED <<shared, aiSent, outstanding>>
         ELSE DeltaTrack(item, <<>>)
    /\ UNCHANGED <<links, trans, pcT, handoffs, goodbye, stopped>>

\* line 149 resumed: lines 157-161, 232-237
A_DeltaTrack ==
    /\ pcA = "delta_media"
    /\ DeltaTrack(response, twSent)
    /\ UNCHANGED <<links, trans, pcT, handoffs, goodbye, stopped>>

\* line 233 resumed: line 238
A_MarkAppend ==
    /\ pcA = "delta_mark"
    /\ mark_queue' = Append(mark_queue, "responsePart")
    /\ Handled
    /\ pcA' = "recv"
    /\ UNCHANGED <<stream_sid, latest_media_timestamp, last_assistant_item,
                   response_start_timestamp_twilio, links, trans, pcT,
                   response, handoffs, goodbye, stopped, outstanding>>

\* Variant of SpeechGuard for sensitivity analysis: the handler called without the test of line 210.
SpeechGuard_Always == last_assistant_item = last_assistant_item

\* line 210: the interruption handler is called only for an in-flight item
SpeechGuard == last_assistant_item # None

\* line 217
TruncateNeeded == mark_queue # <<>> /\ response_start_timestamp_twilio # NoTs

\* Variant of elapsed_time for sensitivity analysis: the operands of line 218 swapped.
elapsed_time_Swapped ==
    response_start_timestamp_twilio[1] - latest_media_timestamp

\* line 218
elapsed_time == latest_media_timestamp - response_start_timestamp_twilio[1]

\* lines 209-211, 215-225 up to the await of line 220.  A truncate sent on an
\* AI link that is not open raises (caught at line 212).
A_SpeechStarted ==
    /\ AiReadable
    /\ IF SpeechGuard /\ TruncateNeeded
         THEN IF openai_ws = "open"
                THEN /\ aiSent' = <<TruncateMsg(last_assistant_item, elapsed_time)>>
                     /\ pcA' = "ss_trunc"
                ELSE pcA' = "ret_err" /\ UNCHANGED aiSent
         ELSE pcA' = "recv" /\ UNCHANGED aiSent
    /\ UNCHANGED <<shared, links, trans, pcT, response, twSent, handoffs,
                   goodbye, stopped, outstanding>>

\* line 220 resumed: line 226 up to its await
A_SendClear ==
    /\ pcA = "ss_trunc"
    /\ IF websocket = "open"
         THEN twSent' = Append(twSent, ClearMsg(stream_sid)) /\ pcA' = "ss_clear"
         ELSE twSent' = twSent /\ pcA' = "ret_err"
    /\ UNCHANGED <<shared, links, trans, pcT, response, aiSent, handoffs,
                   goodbye, stopped, outstanding>>

\* line 226 resumed: lines 227-229
A_Reset ==
    /\ pcA = "ss_clear"
    /\ mark_queue' = <<>>
    /\ last_assistant_item' = None
    /\ response_start_timestamp_twilio' = NoTs
    /\ outstanding' = 0
    /\ Handled
    /\ pcA' = "recv"
    /\ UNCHANGED <<stream_sid, latest_media_timestamp, links, trans, pcT,
                   response, handoffs, goodbye, stopped>>

\* ---- response.done, lines 163-192
\* One content piece of an output item: its item's role (line 166) and its
\* transcript; an empty transcript stands for a piece line 168 skips.
Fragments == [role : {"assistant"}, text : {<<>>} \cup Texts]
FragmentSeqs == UNION {[1..k -> Fragments] : k \in 0..MaxLog}
Inputs == {None, TxtHi}

\* line 168: the pieces that carry a transcript
RECURSIVE Spoken(_)
Spoken(frags) ==
    IF frags = <<>> THEN <<>>
    ELSE IF Head(frags).text # <<>>
           THEN <<Head(frags)>> \o Spoken(Tail(frags))
           ELSE Spoken(Tail(frags))

\* The first piece line 173 finds a goodbye in, 0 when there is none.
FirstBye(sp) ==
    IF \E i \in 1..Len(sp) : IsGoodbye(sp[i].text)
    THEN CHOOSE i \in 1..Len(sp) :
             /\ IsGoodbye(sp[i].text)
             /\ \A j \in 1..(i - 1) : ~IsGoodbye(sp[j].text)
    ELSE 0

\* lines 165-170: the lines appended before the loops are left or end
OutputLines(sp, n) == [i \in 1..n |-> timestamped_line(sp[i].role, sp[i].text)]

\* lines 189-192
InputLines(input) ==
    IF input # None THEN <<timestamped_line("user", input)>> ELSE <<>>

\* lines 163-179 (up to the await of line 175) or 163-192
A_ResponseDone(frags, input) ==
    /\ AiReadable
    /\ LET sp == Spoken(frags)
           k  == FirstBye(sp)
       IN IF k = 0
            THEN /\ Len(transcript_log) + Len(sp) + Len(InputLines(input)) <= MaxLog
                 /\ transcript_log' =
                        transcript_log \o OutputLines(sp, Len(sp)) \o InputLines(input)
                 /\ pcA' = "recv"
                 /\ UNCHANGED <<goodbye, sent>>
            ELSE /\ Len(transcript_log) + k <= MaxLog
                 /\ transcript_log' = transcript_log \o OutputLines(sp, k)
                 /\ goodbye' = TRUE
                 /\ UNCHANGED aiSent
                 /\ IF websocket = "open"
                      THEN /\ twSent' = <<MediaMsg(stream_sid, "farewell")>>
                           /\ pcA' = "bye_farewell"
                      ELSE twSent' = <<>> /\ pcA' = "ret_err"
    /\ UNCHANGED <<shared, links, user_speech_buffer, pcT, response, handoffs, stopped,
                   outstanding>>

\* line 175 resumed: line 180 up to its await
A_ByeStop ==
    /\ pcA = "bye_farewell"
    /\ IF websocket = "open"
         THEN twSent' = Append(twSent, StopMsg(stream_sid)) /\ pcA' = "bye_stop"
         ELSE twSent' = twSent /\ pcA' = "ret_err"
    /\ UNCHANGED <<shared, links, trans, pcT, response, aiSent, handoffs,
                   goodbye, stopped, outstanding>>

\* line 180 resumed: lines 184-185 up to the await of line 185.  An
\* exception of the upload is caught at line 212: nothing is closed.
A_ByeUpload(outcome) ==
    /\ pcA = "bye_stop"
    /\ outcome \in upload_transcript_to_gcs(transcript_log)
    /\ handoffs' = Append(handoffs, transcript_log)
    /\ IF outcome = "raised"
         THEN pcA' = "ret_err" /\ UNCHANGED openai_ws
         ELSE /\ pcA' = "bye_ai_close"
              /\ openai_ws' = IF openai_ws = "open" THEN "closing" ELSE openai_ws
    /\ UNCHANGED <<shared, websocket, trans, pcT, response, sent, goodbye, stopped,
                   outstanding>>

\* line 185 resumed: line 186 up to its await.  Closing a telephony link
\* that is already closed raises (caught at line 212).
A_ByeClose ==
    /\ pcA = "bye_ai_close"
    /\ openai_ws' = "closed"
    /\ IF websocket = "open"
         THEN websocket' = "closed" /\ pcA' = "bye_tw_close"
         ELSE pcA' = "ret_err" /\ UNCHANGED websocket
    /\ UNCHANGED <<shared, trans, pcT, response, sent, handoffs, goodbye, stopped,
                   outstanding>>

\* line 186 resumed: line 187
A_ByeReturn ==
    /\ pcA = "bye_tw_close"
    /\ pcA' = "ret_bye"
    /\ UNCHANGED <<shared, links, trans, pcT, response, sent, handoffs,
                   goodbye, stopped, outstanding>>

\* ---- the other AI events
\* lines 194-197
A_InputText(text) ==
    /\ AiReadable
    /\ Len(user_speech_buffer) < MaxLog
    /\ user_speech_buffer' = Append(user_speech_buffer, Strip(text))
    /\ UNCHANGED <<shared, links, transcript_log, pcT, pcA, response, sent,
                   handoffs, goodbye, stopped, outstanding>>

\* lines 199-204
A_SpeechStopped ==
    /\ AiReadable
    /\ IF user_speech_buffer # <<>>
         THEN /\ Len(transcript_log) < MaxLog
              /\ transcript_log' =
                     Append(transcript_log,
                            timestamped_line("user", Join(user_speech_buffer)))
              /\ user_speech_buffer' = <<>>
         ELSE UNCHANGED trans
    /\ UNCHANGED <<shared, links, pcT, pcA, response, sent, handoffs, goodbye, stopped,
                   outstanding>>

\* lines 206-207
A_Committed ==
    /\ AiReadable
    /\ Len(transcript_log) < MaxLog
    /\ transcript_log' =
           Append(transcript_log, timestamped_line("user", TxtCommitted))
    /\ UNCHANGED <<shared, links, user_speech_buffer, pcT, pcA, response,
                   sent, handoffs, goodbye, stopped, outstanding>>

\* A message whose type no branch of lines 146-211 names (session.created,
\* rate_limits.updated, ...), or an audio delta without 'delta'.
A_Unknown ==
    /\ AiReadable
    /\ UNCHANGED vars

\* A message json.loads rejects (line 141) or one without 'type' (KeyError
\* at line 143): caught at line 212, the coroutine ends.
A_Malformed ==
    /\ AiReadable
    /\ pcA' = "ret_err"
    /\ UNCHANGED <<shared, links, trans, pcT, response, sent, handoffs,
                   goodbye, stopped, outstanding>>

\* The far end (or the network) closes the AI link.
AiDrop ==
    /\ openai_ws \in {"open", "closing"}
    /\ openai_ws' = "closed"
    /\ UNCHANGED <<shared, websocket, trans, pcT, pcA, response, sent,
                   handoffs, goodbye, stopped, outstanding>>

\* Variant of A_End for sensitivity analysis: the loop of line 140 waits on although its link is
\* closed, and ends only once the telephony link is closed too.
A_End_Late ==
    /\ pcA = "recv"
    /\ openai_ws = "closed"
    /\ websocket = "closed"
    /\ pcA' = "ret_end"
    /\ UNCHANGED <<shared, links, trans, pcT, response, sent, handoffs,
                   goodbye, stopped, outstanding>>

\* line 140: the iteration ends once the AI link is closed
A_End ==
    /\ pcA = "recv"
    /\ openai_ws = "closed"
    /\ pcA' = "ret_end"
    /\ UNCHANGED <<shared, links, trans, pcT, response, sent, handoffs,
                   goodbye, stopped, outstanding>>

\* ======================================================= end of the call
\* line 240: gather returns when both coroutines have; leaving the
\* `async with` of line 93 closes the AI link, and the endpoint's return
\* closes the telephony link.
CallReturns ==
    /\ pcT \in RetT /\ pcA \in RetA
    /\ openai_ws # "closed" \/ websocket # "closed"
    /\ openai_ws' = "closed"
    /\ websocket' = "closed"
    /\ UNCHANGED <<shared, trans, pcT, pcA, response, sent, handoffs,
                   goodbye, stopped, outstanding>>

\* ========================================================= specification
TelephonyInput ==
    \/ \E ts \in Timestamps : T_Media(ts)
    \/ \E sid \in Sids : T_Start(sid)
    \/ T_Mark
    \/ \E o \in {"returned", "raised"} : T_Stop(o)
    \/ T_Unknown
    \/ T_Malformed

AiInput ==
    \/ \E item \in Items \cup {None}, valid \in BOOLEAN : A_Delta(item, valid)
    \/ A_SpeechStarted
    \/ \E frags \in FragmentSeqs, input \in Inputs : A_ResponseDone(frags, input)
    \/ A_InputText(TxtHi)
    \/ A_SpeechStopped
    \/ A_Committed
    \/ A_Unknown
    \/ A_Malformed

\* Steps the telephony coroutine takes without a new frame from the far end
TelephonyStep == T_StopClosed \/ T_Disconnect \/ T_DiscClosed

\* Steps the AI coroutine takes without a new message from the far end
AiStep ==
    \/ A_DeltaTrack \/ A_MarkAppend
    \/ A_SendClear \/ A_Reset
    \/ A_ByeStop \/ (\E o \in {"returned", "raised"} : A_ByeUpload(o))
    \/ A_ByeClose \/ A_ByeReturn
    \/ A_End

Next ==
    \/ TelephonyInput
    \/ AiInput
    \/ TelephonyStep
    \/ AiStep
    \/ TwDrop
    \/ AiDrop
    \/ CallReturns

Spec == Init /\ [][Next]_vars

\* The event loop resumes every coroutine that is ready, and a closing
\* handshake ends (by the peer's answer or by its timeout).  The far ends
\* are under no obligation to send or to hang up.
FairSpec ==
    Spec /\ WF_vars(TelephonyStep) /\ WF_vars(AiStep) /\ WF_vars(CallReturns)

\* ================================================= a second call
\* transcript_log is a module global (line 47): every handle_media_stream
\* invocation of the process rebinds it at line 91 and every send_to_twilio
\* appends to whatever list the name is bound to.  The steps a second,
\* concurrent call takes on it:
TxtOther == <<"Y", "o">>

\* lines 90-91 run by the second call's handle_media_stream
OtherCallStarts ==
    /\ transcript_log' = <<>>
    /\ UNCHANGED <<shared, links, user_speech_buffer, pcT, pcA, response, sent,
                   handoffs, goodbye, stopped, outstanding>>

\* lines 170, 192, 203 or 207 run by the second call's send_to_twilio
OtherCallAppends ==
    /\ Len(transcript_log) < MaxLog
    /\ transcript_log' =
           Append(transcript_log, timestamped_line("user", TxtOther))
    /\ UNCHANGED <<shared, links, user_speech_buffer, pcT, pcA, response, sent,
                   handoffs, goodbye, stopped, outstanding>>

OtherCall == OtherCallStarts \/ OtherCallAppends

NextCalls == Next \/ OtherCall

\* The call of Spec with a second call of the same process running beside it
SpecCalls == Init /\ [][NextCalls]_vars

\* =============================================================== claims
AudioMedia(sid) == MediaMsg(sid, "audio")
BothReturned == pcT \in RetT /\ pcA \in RetA

\* ---- C1
\* C1: the transcript is never handed to the sink twice, and a call whose
\* loops have both returned without an exception (the telephony loop from
\* a stop event or a disconnect, the AI loop from a goodbye or at the end
\* of its link) has handed it off exactly once.
C1_HandoffExactlyOnce ==
    /\ Len(handoffs) <= 1
    /\ (pcT \in {"ret_stop", "ret_disc"} /\ pcA \in {"ret_bye", "ret_end"})
           => Len(handoffs) = 1

\* ---- C2
\* C2 as stated: a SpeechStarted received while an item is in flight and
\* mark_queue is not empty sends one truncate with audio_end_ms = latest -
\* start, then one clear, and then the state is reset.
C2_Original ==
    [][ /\ (A_SpeechStarted /\ last_assistant_item # None /\ mark_queue # <<>>)
               => /\ aiSent' = <<TruncateMsg(last_assistant_item,
                                    latest_media_timestamp
                                      - response_start_timestamp_twilio[1])>>
                  /\ pcA' = "ss_trunc"
        /\ A_SendClear => twSent' = <<ClearMsg(stream_sid)>> /\ pcA' = "ss_clear"
        /\ A_Reset => /\ last_assistant_item' = None
                      /\ response_start_timestamp_twilio' = NoTs
                      /\ mark_queue' = <<>>
      ]_vars

\* C2 (amended): the same, provided the AI link is open when the event is
\* received and the telephony link is open when the truncate send has
\* completed; where a link is not open the command is not sent, the state
\* is not reset and the AI loop ends.  A handler that reaches the reset has
\* sent exactly one truncate and exactly one clear.
C2_Interruption ==
    [][ /\ (A_SpeechStarted /\ last_assistant_item # None /\ mark_queue # <<>>)
               => IF openai_ws = "open"
                    THEN /\ aiSent' = <<TruncateMsg(last_assistant_item,
                                           latest_media_timestamp
                                             - response_start_timestamp_twilio[1])>>
                         /\ twSent' = <<>>
                         /\ pcA' = "ss_trunc"
                    ELSE aiSent' = <<>> /\ pcA' = "ret_err" /\ UNCHANGED shared
        /\ A_SendClear
               => IF websocket = "open"
                    THEN twSent' = <<ClearMsg(stream_sid)>> /\ pcA' = "ss_clear"
                    ELSE twSent' = <<>> /\ pcA' = "ret_err" /\ UNCHANGED shared
        /\ A_Reset => /\ Len(aiSent) = 1
                      /\ Len(twSent) = 1 /\ Count(twSent, "clear") = 1
                      /\ last_assistant_item' = None
                      /\ response_start_timestamp_twilio' = NoTs
                      /\ mark_queue' = <<>>
                      /\ pcA' = "recv"
      ]_vars

\* C2 witness: truncate and clear have both been sent for an interruption
\* that found 800 ms of the response played.
C2_Witness ==
    /\ pcA = "ss_clear"
    /\ Len(aiSent) = 1 /\ aiSent[1].audio_end_ms = 800
    /\ Count(twSent, "clear") = 1

\* ---- C3
\* C3 as stated, for a delta whose payload decodes and with the telephony
\* link open: it sends one media event, then one mark event, then appends
\* one entry to mark_queue, whatever stream_sid holds.
C3_Original ==
    [][ /\ \A item \in Items \cup {None} :
               (A_Delta(item, TRUE) /\ websocket = "open")
                   => Count(twSent', "media") = 1 /\ pcA' = "delta_media"
        /\ (A_DeltaTrack /\ websocket = "open")
               => Count(twSent', "mark") = 1 /\ pcA' = "delta_mark"
        /\ A_MarkAppend => Len(mark_queue') = Len(mark_queue) + 1
      ]_vars

\* C3 (amended): a delta whose payload decodes, received with the telephony
\* link open, sends exactly one media event (carrying stream_sid even when
\* it is unset).  When the handler goes on: with stream_sid set and the
\* telephony link open it sends exactly one mark and then appends exactly
\* one entry to mark_queue; with stream_sid unset it sends no mark and
\* appends nothing.
C3_AudioDelta ==
    [][ /\ \A item \in Items \cup {None} :
               (A_Delta(item, TRUE) /\ websocket = "open")
                   => /\ twSent' = <<AudioMedia(stream_sid)>>
                      /\ pcA' = "delta_media"
                      /\ mark_queue' = mark_queue
        /\ (A_DeltaTrack /\ stream_sid # None /\ websocket = "open")
               => /\ twSent' = <<AudioMedia(twSent[1].streamSid), MarkMsg(stream_sid)>>
                  /\ pcA' = "delta_mark"
                  /\ mark_queue' = mark_queue
        /\ (A_DeltaTrack /\ stream_sid = None)
               => /\ Count(twSent, "media") = 1 /\ Count(twSent, "mark") = 0
                  /\ twSent' = <<>>
                  /\ pcA' = "recv"
                  /\ mark_queue' = mark_queue
        /\ A_MarkAppend
               => /\ Count(twSent, "mark") = 1 /\ Count(twSent, "media") <= 1
                  /\ mark_queue' = Append(mark_queue, "responsePart")
      ]_vars

\* C3 witness: a delta has sent its media event and its mark on a started
\* call and is about to append to mark_queue.
C3_Witness ==
    /\ pcA = "delta_mark"
    /\ stream_sid = "CA1"
    /\ twSent = <<AudioMedia("CA1"), MarkMsg("CA1")>>

\* ---- C4
\* C4: once a goodbye is detected, one farewell media event and one stop
\* event are sent, the transcript is handed off and both links are closed,
\* and neither loop takes another event from its link.
C4_Goodbye ==
    /\ [](goodbye /\ pcA \in RetA =>
              /\ Farewells(twSent) = 1 /\ Count(twSent, "stop") = 1
              /\ Len(handoffs) >= 1
              /\ openai_ws = "closed" /\ websocket = "closed")
    /\ [][goodbye => ~TelephonyInput /\ ~AiInput]_vars

\* ---- C5
\* C5: once the telephony loop has returned from a stop event, the
\* transcript has been handed off and the AI link is closed; and from the
\* stop event on no farewell media payload is sent.
C5_Stop ==
    /\ [](stopped /\ pcT = "ret_stop" =>
              Len(handoffs) >= 1 /\ openai_ws = "closed")
    /\ [][stopped => Farewells(twSent') <= Farewells(twSent)]_vars

\* ---- C6
\* C6: termination is best-effort.  Once a goodbye was detected and the AI
\* loop has returned, the transcript has been handed off and neither link
\* is open; once the telephony loop has returned after a stop event, the
\* AI link is not open.
C6_BestEffort ==
    /\ (goodbye /\ pcA \in RetA) =>
           Len(handoffs) >= 1 /\ openai_ws # "open" /\ websocket # "open"
    /\ (stopped /\ pcT \in RetT) => openai_ws # "open"

\* ---- C7
\* C7: once the telephony loop has returned from a disconnect, the
\* transcript has been handed off and both links are closed.
C7_Disconnect ==
    pcT = "ret_disc" =>
        Len(handoffs) >= 1 /\ openai_ws = "closed" /\ websocket = "closed"

\* ---- C8
\* C8: a malformed or unexpected payload changes no shared state and the
\* loop that read it goes on reading.
C8_Skipped ==
    [][ /\ (T_Malformed \/ T_Unknown) => pcT' = "recv" /\ UNCHANGED <<shared, trans>>
        /\ (A_Malformed \/ A_Unknown) => pcA' = "recv" /\ UNCHANGED <<shared, trans>>
      ]_vars

\* ---- C9
\* C9 as stated: whenever either link is closed, both loops eventually
\* return.
C9_Original ==
    (openai_ws = "closed" \/ websocket = "closed") ~> BothReturned

\* C9 (amended): whenever a link is closed, the loop that reads that link
\* eventually returns: the AI loop once the AI link is closed, the
\* telephony loop once the telephony link is closed.
C9_OwnLoopReturns ==
    /\ (openai_ws = "closed") ~> (pcA \in RetA)
    /\ (websocket = "closed") ~> (pcT \in RetT)

\* C9 witness: the far end has closed the AI link, the AI loop has returned
\* for that reason, and the telephony loop is still reading an open link.
C9_Witness ==
    /\ openai_ws = "closed" /\ pcA = "ret_end"
    /\ websocket = "open" /\ pcT = "recv"

\* ---- C10
\* C10: a SpeechStarted received while no item is in flight sends no
\* truncate and no clear and leaves stream_sid, latest_media_timestamp,
\* last_assistant_item, response_start_timestamp_twilio and mark_queue
\* unchanged.
C10_NoInFlight ==
    [][(A_SpeechStarted /\ last_assistant_item = None)
           => /\ UNCHANGED <<shared, sent>>
              /\ aiSent = <<>> /\ twSent = <<>>
              /\ pcA' = "recv"]_vars

\* C10 witness: SpeechStarted can arrive with no item in flight although the
\* queue is not empty and the start timestamp is set, the state in which
\* only the guard of line 210 keeps the handler from acting.
C10_Witness ==
    /\ last_assistant_item = None
    /\ mark_queue # <<>>
    /\ response_start_timestamp_twilio # NoTs
    /\ ENABLED A_SpeechStarted

\* ---- C11
\* C11: in every reachable state last_assistant_item is set if and only if
\* response_start_timestamp_twilio is set.
C11_BothOrNeither ==
    (last_assistant_item # None) <=> (response_start_timestamp_twilio # NoTs)

\* ---- C12
\* C12: once stream_sid is set, no step changes it.
C12_StreamIdOnce ==
    [][stream_sid # None => stream_sid' = stream_sid]_vars

\* ---- C13
\* C13: whenever a media frame can be received, handling it leaves
\* latest_media_timestamp equal to the frame's timestamp, also when the AI
\* link is no longer open; the value then never decreases under in-order
\* delivery.
C13_LatestMedia ==
    \A ts \in Timestamps :
        ENABLED T_Media(ts)
            => ENABLED (T_Media(ts) /\ latest_media_timestamp' = ts)

\* ---- C14
\* C14: a telephony mark event removes exactly the oldest entry of
\* mark_queue when the queue is not empty and leaves it empty otherwise; it
\* never ends the telephony loop and changes no other shared field, no
\* link and no transcript.
C14_AckReceived ==
    [][T_Mark =>
          /\ mark_queue' = IF mark_queue # <<>> THEN Tail(mark_queue) ELSE <<>>
          /\ Len(mark_queue') >= Len(mark_queue) - 1
          /\ pcT' = "recv"
          /\ UNCHANGED <<stream_sid, latest_media_timestamp,
                         last_assistant_item, response_start_timestamp_twilio,
                         links, trans, handoffs>>
      ]_vars

\* C14 witness: an acknowledgment can arrive while two entries are pending,
\* and handling it leaves one.
C14_Witness ==
    /\ Len(mark_queue) = 2
    /\ ENABLED (T_Mark /\ Len(mark_queue') = 1)

\* ---- C15
\* C15: calls are independent.  No transcript handed off for this call
\* holds a line of the other call, and no step of the other call removes,
\* reorders or adds a line in this call's transcript.
C15_Independent ==
    /\ [](\A i \in 1..Len(handoffs) : \A j \in 1..Len(handoffs[i]) :
              handoffs[i][j].text # TxtOther)
    /\ [][OtherCall => transcript_log' = transcript_log]_vars

\* ---- C16
\* C16: when the first audio delta of a response is tracked while the item
\* of an earlier, uninterrupted response is still recorded, the start
\* timestamp is re-established: it becomes the current
\* latest_media_timestamp and does not keep the earlier response's value.
C16_StartOfResponse ==
    [][(/\ A_DeltaTrack
        /\ response \in Items
        /\ last_assistant_item \in Items
        /\ response # last_assistant_item)
           => response_start_timestamp_twilio' = <<latest_media_timestamp>>
      ]_vars

\* ---- C17
\* C17: while the AI loop is suspended inside the handling of one event,
\* between its first and its last access to the shared fields, the
\* telephony loop handles no event that reads or changes those fields.
C17_Atomic ==
    [][(pcA \in {"delta_media", "delta_mark", "ss_trunc", "ss_clear"})
           => /\ ~(\E ts \in Timestamps : T_Media(ts))
              /\ ~(\E sid \in Sids : T_Start(sid))
              /\ ~T_Mark
      ]_vars

\* ---- C18
\* C18: no event is sent to the telephony link with an unset stream
\* identifier.
C18_Addressed ==
    \A i \in 1..Len(twSent) : twSent[i].streamSid # None

\* ---- C19
\* C19: mark_queue never holds more entries than marks were sent since the
\* last reset and not yet echoed by the telephony side.
C19_NoStaleAck ==
    Len(mark_queue) <= outstanding

\* ---- C20
\* C20: once the transcript has been handed to the sink, no line is
\* appended to transcript_log.
C20_HandoffComplete ==
    [][handoffs # <<>> => transcript_log' = transcript_log]_vars

====
